---- MODULE Spec2Model ----
(***************************************************************************)
(* Route 53 record auto-linker: the Lambda of lambda/r53/update-records.js *)
(* as a state machine.  One invocation of exports.handler is a sequence of *)
(* steps, one per awaited external call (EC2 / ELBv2 describe, Route 53    *)
(* zone listing, DynamoDB get/put/delete, Route 53 record-set change).     *)
(*                                                                         *)
(* JavaScript values: `undefined` and `null` are the records Undefined and *)
(* Null; an array that the code tests for presence (tags, tagKeys) is      *)
(* Arr(seq); a string that the code tests for truthiness is Str(s).  DNS   *)
(* names are sequences of characters so that getDomain is computed the way *)
(* the code computes it (indexOf / substring).                             *)
(***************************************************************************)
EXTENDS Integers, Sequences, FiniteSets, TLC

\* ------------------------------------------------------------ constants

DEFAULT_TTL == 300
TAG_KEY == "bcs:route53:record"

\* ------------------------------------------------------------ bounds

\* Longest tag list (tags of a request, keys of a RemoveTags request).
MaxTags == 2

\* ------------------------------------------------------------ JS values

Undefined == [t |-> "undefined"]
Null == [t |-> "null"]
Arr(s) == [t |-> "array", a |-> s]
Str(s) == [t |-> "string", s |-> s]

\* `!x` of the code, for the values the code tests (objects, arrays and
\* non-empty strings are truthy).
Falsy(x) == x \in {Undefined, Null}

\* ------------------------------------------------------------ the environment

Instances == {"i-1"}
Balancers == {"lb-app"}
ResourceIds == Instances \cup Balancers

\* DNS names, as character sequences.
AX == <<"a", ".", "x">>
BX == <<"b", ".", "x">>
CZ == <<"c", ".", "z">>
NoDot == <<"n">>
AliasValues == {AX, BX, CZ, NoDot}

PrivateIp(id) == "10.0.0." \o id

\* ec2.describeInstances({InstanceIds: [id]}): the reservation of the instance.
DescribeInstances(id) ==
    [Reservations |->
        << [Instances |-> << [InstanceId |-> id, PrivateIpAddress |-> PrivateIp(id)] >>] >>]

\* elbv2.describeLoadBalancers({LoadBalancerArns: [arn]}).
DescribeLoadBalancers(arn) ==
    [LoadBalancers |->
        << [LoadBalancerArn |-> arn,
            CanonicalHostedZoneId |-> "ZELB",
            DNSName |-> arn \o ".elb.amazonaws.com",
            Type |-> IF arn = "lb-app" THEN "application" ELSE "network"] >>]

\* The hosted zones of the account, in the order Route 53 lists them.
HostedZones ==
    << [Id |-> "/hostedzone/Z1", Name |-> <<"x">>],
       [Id |-> "/hostedzone/Z2", Name |-> <<"y">>] >>

Alphabet == <<".", "a", "b", "c", "n", "x", "y", "z">>
CharRank(c) == CHOOSE i \in 1..Len(Alphabet) : Alphabet[i] = c

RECURSIVE LexLess(_, _)
LexLess(s, u) ==
    IF u = <<>> THEN FALSE
    ELSE IF s = <<>> THEN TRUE
    ELSE IF Head(s) # Head(u) THEN CharRank(Head(s)) < CharRank(Head(u))
    ELSE LexLess(Tail(s), Tail(u))

\* route53.listHostedZonesByName({DNSName}): the zones in name order, starting
\* at the first zone whose name is not before DNSName.
ListHostedZonesByName(dnsName) ==
    [HostedZones |-> SelectSeq(HostedZones, LAMBDA z : ~LexLess(z.Name, dnsName))]

IsSuffix(s, u) ==
    /\ Len(s) <= Len(u)
    /\ SubSeq(u, Len(u) - Len(s) + 1, Len(u)) = s

\* A record name belongs to a zone when it is the zone's name or ends in
\* "." followed by the zone's name.
InZone(name, zoneId) ==
    \E i \in 1..Len(HostedZones) :
        /\ HostedZones[i].Id = zoneId
        /\ \/ name = HostedZones[i].Name
           \/ IsSuffix(<<".">> \o HostedZones[i].Name, name)

NoRecord == [t |-> "none"]

\* route53.changeResourceRecordSets with a single change: UPSERT creates or
\* overwrites the record set of that name; DELETE removes it and is rejected
\* unless a record set with that name and exactly these values exists; any
\* change naming a record outside the zone is rejected.
ChangeResourceRecordSets(records, zoneId, change) ==
    LET rr == change.ResourceRecordSet
        accepted ==
            /\ InZone(rr.Name, zoneId)
            /\ change.Action = "DELETE" => records[rr.Name] = rr
    IN  [ok |-> accepted,
         records |->
            IF ~accepted THEN records
            ELSE IF change.Action = "UPSERT" THEN [records EXCEPT ![rr.Name] = rr]
            ELSE [records EXCEPT ![rr.Name] = NoRecord]]

\* ------------------------------------------------------------ pure functions

IndexOf(s, c) ==
    IF \E i \in 1..Len(s) : s[i] = c
    THEN (CHOOSE i \in 1..Len(s) : s[i] = c /\ \A j \in 1..(i - 1) : s[j] # c) - 1
    ELSE -1

\* url.substring(start), start a 0-based index
Substring(s, start) == SubSeq(s, start + 1, Len(s))

getDomain(url) == Substring(url, IndexOf(url, ".") + 1)

\* array.filter(...).pop(): the last match, undefined when there is none
Pop(s) == IF s = <<>> THEN Undefined ELSE s[Len(s)]

findEntry(tags) ==
    IF Falsy(tags) THEN Null
    ELSE Pop(SelectSeq(tags.a, LAMBDA tag : tag.key = TAG_KEY))

\* Mutant: the keys are compared as findEntry compares tags (`tag.key` of a
\* string is undefined), so no key ever matches.
findKey_asEntry(tags) ==
    IF Falsy(tags) THEN Null ELSE Undefined

findKey(tags) ==
    IF Falsy(tags) THEN Null
    ELSE LET m == SelectSeq(tags.a, LAMBDA tag : tag = TAG_KEY)
         IN  IF m = <<>> THEN Undefined ELSE Str(m[Len(m)])

\* ------------------------------------------------------------ RecordTable

RecordTable_getItem(table, id) ==
    LET item == [Item |-> table[id]]
    IN  IF Falsy(item) THEN Null ELSE item.Item

\* Mutant: the put replaces the table's content (every row is keyed alike).
RecordTable_update_oneRow(table, id, alias, object) ==
    [i \in DOMAIN table |->
        IF i = id THEN [id |-> id, alias |-> alias, object |-> object] ELSE Undefined]

\* Mutant: a conditional put, which leaves an existing row as it is.
RecordTable_update_ifAbsent(table, id, alias, object) ==
    IF table[id] # Undefined THEN table
    ELSE [table EXCEPT ![id] = [id |-> id, alias |-> alias, object |-> object]]

\* Mutant: the put is not performed.
RecordTable_update_lost(table, id, alias, object) == table

RecordTable_update(table, id, alias, object) ==
    [table EXCEPT ![id] = [id |-> id, alias |-> alias, object |-> object]]

\* Mutant: the delete is not performed.
RecordTable_remove_lost(table, id) == table

RecordTable_remove(table, id) == [table EXCEPT ![id] = Undefined]

\* ------------------------------------------------------------ change batches

\* Mutant: the action ignores the upsert flag.
Ec2ChangeBatch_alwaysUpsert(instance, alias, upsert) ==
    << [Action |-> "UPSERT",
        ResourceRecordSet |->
            [Type |-> "A",
             TTL |-> DEFAULT_TTL,
             Name |-> alias,
             ResourceRecords |-> << [Value |-> instance.PrivateIpAddress] >>]] >>

Ec2ChangeBatch(instance, alias, upsert) ==
    << [Action |-> IF upsert THEN "UPSERT" ELSE "DELETE",
        ResourceRecordSet |->
            [Type |-> "A",
             TTL |-> DEFAULT_TTL,
             Name |-> alias,
             ResourceRecords |-> << [Value |-> instance.PrivateIpAddress] >>]] >>

\* Mutant: the "dualstack." prefix is added on UPSERT only.
ElbChangeBatch_prefixOnUpsert(lb, alias, upsert) ==
    << [Action |-> IF upsert THEN "UPSERT" ELSE "DELETE",
        ResourceRecordSet |->
            [Type |-> "A",
             Name |-> alias,
             AliasTarget |->
                [HostedZoneId |-> lb.CanonicalHostedZoneId,
                 DNSName |-> (IF upsert /\ lb.Type = "application" THEN "dualstack." ELSE "")
                                \o lb.DNSName \o ".",
                 EvaluateTargetHealth |-> TRUE]]] >>

ElbChangeBatch(lb, alias, upsert) ==
    << [Action |-> IF upsert THEN "UPSERT" ELSE "DELETE",
        ResourceRecordSet |->
            [Type |-> "A",
             Name |-> alias,
             AliasTarget |->
                [HostedZoneId |-> lb.CanonicalHostedZoneId,
                 DNSName |-> (IF lb.Type = "application" THEN "dualstack." ELSE "")
                                \o lb.DNSName \o ".",
                 EvaluateTargetHealth |-> TRUE]]] >>

\* ------------------------------------------------------------ events

OtherKeys == {"Name", "env"}
Tags ==
    {[key |-> TAG_KEY, value |-> v] : v \in AliasValues}
        \cup {[key |-> k, value |-> <<"w">>] : k \in OtherKeys}

SeqsUpTo(S, n) == UNION {[1..k -> S] : k \in 0..n}

\* Tag lists as a request carries them: the keys of one request are distinct.
TagLists ==
    {s \in SeqsUpTo(Tags, MaxTags) :
        \A i, j \in 1..Len(s) : i # j => s[i].key # s[j].key}

KeyLists ==
    {s \in SeqsUpTo({TAG_KEY} \cup OtherKeys, MaxTags) :
        \A i, j \in 1..Len(s) : i # j => s[i] # s[j]}

Event(source, eventName, requestParameters, responseElements) ==
    [source |-> source,
     detail |-> [eventName |-> eventName,
                 requestParameters |-> requestParameters,
                 responseElements |-> responseElements]]

RunInstancesEvents ==
    {Event("aws.ec2", "RunInstances",
           [tagSpecificationSet |-> ts],
           [instancesSet |-> [items |-> << [instanceId |-> i] >>]]) :
        ts \in {Undefined} \cup {[items |-> << [tags |-> Arr(l)] >>] : l \in TagLists},
        i \in Instances}

TerminateInstancesEvents ==
    {Event("aws.ec2", "TerminateInstances",
           [instancesSet |-> [items |-> << [instanceId |-> i] >>]], Null) :
        i \in Instances}

Ec2TagEvents ==
    {Event("aws.ec2", n,
           [resourcesSet |-> [items |-> << [resourceId |-> i] >>],
            tagSet |-> [items |-> Arr(l)]], Null) :
        n \in {"CreateTags", "DeleteTags"}, i \in Instances, l \in TagLists}

CreateLoadBalancerEvents ==
    {Event("aws.elasticloadbalancing", "CreateLoadBalancer",
           [tags |-> t],
           [loadBalancers |-> << [loadBalancerArn |-> b] >>]) :
        t \in {Undefined} \cup {Arr(l) : l \in TagLists}, b \in Balancers}

DeleteLoadBalancerEvents ==
    {Event("aws.elasticloadbalancing", "DeleteLoadBalancer",
           [loadBalancerArn |-> b], Null) : b \in Balancers}

AddTagsEvents ==
    {Event("aws.elasticloadbalancing", "AddTags",
           [resourceArns |-> <<b>>, tags |-> Arr(l)], Null) :
        b \in Balancers, l \in TagLists}

RemoveTagsEvents ==
    {Event("aws.elasticloadbalancing", "RemoveTags",
           [resourceArns |-> <<b>>, tagKeys |-> Arr(l)], Null) :
        b \in Balancers, l \in KeyLists}

Ec2EventNames == {"RunInstances", "TerminateInstances", "CreateTags", "DeleteTags"}
ElbEventNames == {"CreateLoadBalancer", "DeleteLoadBalancer", "AddTags", "RemoveTags"}

Recognized(e) ==
    \/ e.source = "aws.ec2" /\ e.detail.eventName \in Ec2EventNames
    \/ e.source = "aws.elasticloadbalancing" /\ e.detail.eventName \in ElbEventNames

\* Events outside the table: API calls the handler does not know, and known
\* API calls arriving under another source.
OtherEvents ==
    {Event("aws.ec2", "StopInstances",
           [instancesSet |-> [items |-> << [instanceId |-> i] >>]], Null) :
        i \in Instances}
    \cup {Event("aws.elasticloadbalancing", "ModifyLoadBalancerAttributes",
                [loadBalancerArn |-> b], Null) : b \in Balancers}
    \cup {[e EXCEPT !.source = src] :
            e \in TerminateInstancesEvents,
            src \in {"aws.elasticloadbalancing", "aws.s3"}}
    \cup {[e EXCEPT !.source = src] :
            e \in DeleteLoadBalancerEvents, src \in {"aws.ec2", "aws.s3"}}

Events ==
    RunInstancesEvents \cup TerminateInstancesEvents \cup Ec2TagEvents
        \cup CreateLoadBalancerEvents \cup DeleteLoadBalancerEvents
        \cup AddTagsEvents \cup RemoveTagsEvents \cup OtherEvents

\* ------------------------------------------------------------ state

Procs == {1}

VARIABLES
    store,        \* the Route53Records table: resource id -> item, or Undefined
    dns,          \* the record sets of the hosted zones: name -> record set, or NoRecord
    pc,           \* where each invocation stands
    event,        \* the event of each invocation
    entry,        \* processEc2 / processElb: var entry
    key,          \* processEc2 / processElb: var instanceId, var lbArn
    item,         \* processEc2 / processElb: item
    handler,      \* processEc2 / processElb: var handler (Ec2Handler, ElbHandler)
    alias,        \* the alias handed to getDomain and to updateRecords
    upsert,       \* the upsert argument of updateRecords
    zone,         \* HostedZone.zone
    changeBatch,  \* updateRecords: const changeBatch
    outcome,      \* "running", then "ok" (the promise resolved) or "error" (rejected)
    calls,        \* the external calls the invocation has made, in order
    pre,          \* store and dns as they were when the last invocation began
    prev,         \* what the invocation before the current one did
    life,         \* each resource: "new" (not created yet), "live" or "gone"
    dup           \* "afterOk" / "afterError": the current event is the previous
                  \* event delivered again, after it succeeded / failed; else "no"

vars ==
    <<store, dns, pc, event, entry, key, item, handler, alias, upsert, zone,
      changeBatch, outcome, calls, pre, prev, dup, life>>

locals == <<entry, key, item, handler, alias, upsert, zone, changeBatch>>
others == <<pre, prev, dup, life>>

NoEvent == [t |-> "none"]

Init ==
    /\ store = [id \in ResourceIds |-> Undefined]
    /\ dns = [n \in AliasValues |-> NoRecord]
    /\ pc = [p \in Procs |-> "idle"]
    /\ event = [p \in Procs |-> NoEvent]
    /\ entry = [p \in Procs |-> Undefined]
    /\ key = [p \in Procs |-> Undefined]
    /\ item = [p \in Procs |-> Undefined]
    /\ handler = [p \in Procs |-> Undefined]
    /\ alias = [p \in Procs |-> Undefined]
    /\ upsert = [p \in Procs |-> FALSE]
    /\ zone = [p \in Procs |-> Undefined]
    /\ changeBatch = [p \in Procs |-> Undefined]
    /\ outcome = [p \in Procs |-> "none"]
    /\ calls = [p \in Procs |-> <<>>]
    /\ pre = [store |-> [id \in ResourceIds |-> Undefined],
              dns |-> [n \in AliasValues |-> NoRecord]]
    /\ prev = [kind |-> "other", id |-> "none", fresh |-> FALSE]
    /\ dup = "no"
    /\ life \in [ResourceIds -> {"new", "live"}]

\* ------------------------------------------------------------ the dispatcher

\* What the synchronous part of processEc2 / processElb leaves behind: the
\* call it awaits next ("done": it returned) and its local variables.
Return(e) ==
    [next |-> "done", entry |-> e, key |-> Undefined, handler |-> Undefined,
     upsert |-> FALSE]

Ec2Handler(instanceId) == [instanceId |-> instanceId, instance |-> Undefined]
ElbHandler(lbArn) == [lbArn |-> lbArn, lb |-> Undefined]

AwaitLoad(next, e, id, h, u) ==
    [next |-> next, entry |-> e, key |-> Str(id), handler |-> h, upsert |-> u]

AwaitGetItem(e, id) ==
    [next |-> "table.getItem", entry |-> e, key |-> Str(id), handler |-> Undefined,
     upsert |-> FALSE]

\* Mutant: DeleteTags is handled as CreateTags is.
TagEventUpsert_always(eventName) == TRUE

\* CreateTags / DeleteTags: `detail.eventName == "CreateTags"`
TagEventUpsert(eventName) == eventName = "CreateTags"

processEc2(detail) ==
    LET parameters == detail.requestParameters IN
    CASE detail.eventName = "RunInstances" ->
            IF Falsy(parameters.tagSpecificationSet) THEN Return(Undefined)
            ELSE LET e == findEntry(parameters.tagSpecificationSet.items[1].tags)
                     instanceId == detail.responseElements.instancesSet.items[1].instanceId
                 IN  IF Falsy(e) THEN Return(e)
                     ELSE AwaitLoad("Ec2Handler.load", e, instanceId,
                                    Ec2Handler(instanceId), TRUE)
      [] detail.eventName = "TerminateInstances" ->
            AwaitGetItem(Undefined, parameters.instancesSet.items[1].instanceId)
      [] detail.eventName \in {"CreateTags", "DeleteTags"} ->
            LET e == findEntry(parameters.tagSet.items)
                instanceId == parameters.resourcesSet.items[1].resourceId
            IN  IF Falsy(e) THEN Return(e)
                ELSE AwaitLoad("Ec2Handler.load", e, instanceId,
                               Ec2Handler(instanceId), TagEventUpsert(detail.eventName))
      [] OTHER -> Return(Undefined)

processElb(detail) ==
    LET parameters == detail.requestParameters IN
    CASE detail.eventName = "CreateLoadBalancer" ->
            LET e == findEntry(parameters.tags)
                lbArn == detail.responseElements.loadBalancers[1].loadBalancerArn
            IN  IF Falsy(e) THEN Return(e)
                ELSE AwaitLoad("ElbHandler.load", e, lbArn, ElbHandler(lbArn), TRUE)
      [] detail.eventName = "DeleteLoadBalancer" ->
            AwaitGetItem(Undefined, parameters.loadBalancerArn)
      [] detail.eventName = "AddTags" ->
            LET e == findEntry(parameters.tags)
                lbArn == parameters.resourceArns[1]
            IN  IF Falsy(e) THEN Return(e)
                ELSE AwaitLoad("ElbHandler.load", e, lbArn, ElbHandler(lbArn), TRUE)
      [] detail.eventName = "RemoveTags" ->
            LET e == findKey(parameters.tagKeys)
            IN  IF Falsy(e) THEN Return(e)
                ELSE AwaitGetItem(e, parameters.resourceArns[1])
      [] OTHER -> Return(Undefined)

\* Mutant: the dispatcher goes by the event name and ignores the source.
Dispatch_byNameOnly(ev) ==
    IF ev.detail.eventName \in Ec2EventNames
    THEN processEc2(ev.detail)
    ELSE processElb(ev.detail)

\* exports.handler: switch (event.source)
Dispatch(ev) ==
    CASE ev.source = "aws.ec2" -> processEc2(ev.detail)
      [] ev.source = "aws.elasticloadbalancing" -> processElb(ev.detail)
      [] OTHER -> Return(Undefined)

\* Mutant: no branch checks the item.
ItemGuarded_never(detail) == FALSE

\* After `item = await table.getItem(...)`: TerminateInstances and
\* DeleteLoadBalancer return when there is no item; RemoveTags reads item.alias
\* unguarded, a TypeError when the item is undefined.
ItemGuarded(detail) == detail.eventName # "RemoveTags"

\* ------------------------------------------------------------ bookkeeping

Call(api, arg) == [api |-> api, arg |-> arg]

ChangeCalls(cs) == SelectSeq(cs, LAMBDA c : c.api = "route53.changeResourceRecordSets")
StoreCalls(cs) == SelectSeq(cs, LAMBDA c : c.api \in {"dynamodb.put", "dynamodb.delete"})

UpsertEventNames == {"RunInstances", "CreateTags", "CreateLoadBalancer", "AddTags"}
DeleteEventNames == {"TerminateInstances", "DeleteTags", "DeleteLoadBalancer", "RemoveTags"}

\* The row of the dispatch table an event falls in.
EventKind(e) ==
    IF ~Recognized(e) THEN "other"
    ELSE IF e.detail.eventName \in UpsertEventNames THEN "upsert"
    ELSE "delete"

\* The resource an event is about.
EventResource(e) ==
    IF ~Recognized(e) THEN "none"
    ELSE LET n == e.detail.eventName
             q == e.detail.requestParameters
         IN  CASE n = "RunInstances" -> e.detail.responseElements.instancesSet.items[1].instanceId
               [] n = "TerminateInstances" -> q.instancesSet.items[1].instanceId
               [] n \in {"CreateTags", "DeleteTags"} -> q.resourcesSet.items[1].resourceId
               [] n = "CreateLoadBalancer" -> e.detail.responseElements.loadBalancers[1].loadBalancerArn
               [] n = "DeleteLoadBalancer" -> q.loadBalancerArn
               [] OTHER -> q.resourceArns[1]

\* What the invocation that just ended did, as far as the next one's claims
\* need it: a successful upsert-type event (a change request was accepted),
\* its resource, and whether the store had no row for it beforehand; or an
\* upsert-type / delete-type event whose change request failed (its store
\* write had been made).
Summary(p) ==
    IF /\ pc[p] = "done"
       /\ outcome[p] = "ok"
       /\ EventKind(event[p]) = "upsert"
       /\ ChangeCalls(calls[p]) # <<>>
    THEN [kind |-> "upsert",
          id |-> EventResource(event[p]),
          fresh |-> pre.store[EventResource(event[p])] = Undefined]
    ELSE IF /\ pc[p] = "done"
            /\ outcome[p] = "error"
            /\ EventKind(event[p]) # "other"
            /\ calls[p] # <<>>
            /\ calls[p][Len(calls[p])].api = "route53.changeResourceRecordSets"
    THEN [kind |-> IF EventKind(event[p]) = "upsert" THEN "failedUpsert" ELSE "failedDelete",
          id |-> EventResource(event[p]),
          fresh |-> FALSE]
    ELSE [kind |-> "other", id |-> "none", fresh |-> FALSE]

Finish(p, result) ==
    /\ pc' = [pc EXCEPT ![p] = "done"]
    /\ outcome' = [outcome EXCEPT ![p] = result]

\* ------------------------------------------------------------ actions

\* The API call an event reports has happened: a resource is created once,
\* tagged and untagged while it lives, and deleted once.  Events outside the
\* table do not change whether a resource lives.
Happens(ev, l) ==
    IF ~Recognized(ev) THEN TRUE
    ELSE IF ev.detail.eventName \in {"RunInstances", "CreateLoadBalancer"}
    THEN l[EventResource(ev)] = "new"
    ELSE l[EventResource(ev)] = "live"

After(ev, l) ==
    IF ~Recognized(ev) THEN l
    ELSE IF ev.detail.eventName \in {"RunInstances", "CreateLoadBalancer"}
    THEN [l EXCEPT ![EventResource(ev)] = "live"]
    ELSE IF ev.detail.eventName \in {"TerminateInstances", "DeleteLoadBalancer"}
    THEN [l EXCEPT ![EventResource(ev)] = "gone"]
    ELSE l

\* exports.handler(event), up to its first await.
Invoke(p, ev) ==
    /\ LET c == Dispatch(ev) IN
        /\ pc' = [pc EXCEPT ![p] = c.next]
        /\ outcome' = [outcome EXCEPT ![p] = IF c.next = "done" THEN "ok" ELSE "running"]
        /\ entry' = [entry EXCEPT ![p] = c.entry]
        /\ key' = [key EXCEPT ![p] = c.key]
        /\ handler' = [handler EXCEPT ![p] = c.handler]
        /\ upsert' = [upsert EXCEPT ![p] = c.upsert]
    /\ event' = [event EXCEPT ![p] = ev]
    /\ item' = [item EXCEPT ![p] = Undefined]
    /\ alias' = [alias EXCEPT ![p] = Undefined]
    /\ zone' = [zone EXCEPT ![p] = Undefined]
    /\ changeBatch' = [changeBatch EXCEPT ![p] = Undefined]
    /\ calls' = [calls EXCEPT ![p] = <<>>]
    /\ pre' = [store |-> store, dns |-> dns]
    /\ UNCHANGED <<store, dns>>

\* The event bus delivers an event.
exports_handler(p, ev) ==
    /\ pc[p] = "idle"
    /\ Happens(ev, life)
    /\ life' = After(ev, life)
    /\ Invoke(p, ev)
    /\ UNCHANGED <<prev, dup>>

\* The event bus delivers the event of the invocation that just ended once
\* more (at-least-once delivery).
redeliver(p) ==
    /\ pc[p] = "done"
    /\ Invoke(p, event[p])
    /\ prev' = Summary(p)
    /\ dup' = IF outcome[p] = "ok" THEN "afterOk" ELSE "afterError"
    /\ UNCHANGED life

\* The invocation is over: its event and its locals are gone.
invocation_end(p) ==
    /\ pc[p] = "done"
    /\ pc' = [pc EXCEPT ![p] = "idle"]
    /\ event' = [event EXCEPT ![p] = NoEvent]
    /\ entry' = [entry EXCEPT ![p] = Undefined]
    /\ key' = [key EXCEPT ![p] = Undefined]
    /\ item' = [item EXCEPT ![p] = Undefined]
    /\ handler' = [handler EXCEPT ![p] = Undefined]
    /\ alias' = [alias EXCEPT ![p] = Undefined]
    /\ upsert' = [upsert EXCEPT ![p] = FALSE]
    /\ zone' = [zone EXCEPT ![p] = Undefined]
    /\ changeBatch' = [changeBatch EXCEPT ![p] = Undefined]
    /\ outcome' = [outcome EXCEPT ![p] = "none"]
    /\ calls' = [calls EXCEPT ![p] = <<>>]
    /\ pre' = [store |-> store, dns |-> dns]
    /\ prev' = Summary(p)
    /\ dup' = "no"
    /\ UNCHANGED <<store, dns, life>>

\* Mutant: the alias is taken from the instance's row when there is one.
Ec2Handler_load_storedAlias(p) ==
    /\ pc[p] = "Ec2Handler.load"
    /\ LET data == DescribeInstances(handler[p].instanceId) IN
        handler' = [handler EXCEPT ![p].instance = data.Reservations[1].Instances[1]]
    /\ calls' = [calls EXCEPT ![p] =
            Append(@, Call("ec2.describeInstances",
                           [InstanceIds |-> <<handler[p].instanceId>>]))]
    /\ alias' = [alias EXCEPT ![p] =
            IF store[handler[p].instanceId] # Undefined
            THEN store[handler[p].instanceId].alias
            ELSE entry[p].value]
    /\ pc' = [pc EXCEPT ![p] = "zone.load"]
    /\ UNCHANGED <<store, dns, event, entry, key, item, upsert, zone, changeBatch,
                   outcome, others>>

\* Ec2Handler.load, then the caller's `entry.value`.
Ec2Handler_load(p) ==
    /\ pc[p] = "Ec2Handler.load"
    /\ LET data == DescribeInstances(handler[p].instanceId) IN
        handler' = [handler EXCEPT ![p].instance = data.Reservations[1].Instances[1]]
    /\ calls' = [calls EXCEPT ![p] =
            Append(@, Call("ec2.describeInstances",
                           [InstanceIds |-> <<handler[p].instanceId>>]))]
    /\ alias' = [alias EXCEPT ![p] = entry[p].value]
    /\ pc' = [pc EXCEPT ![p] = "zone.load"]
    /\ UNCHANGED <<store, dns, event, entry, key, item, upsert, zone, changeBatch,
                   outcome, others>>

\* ElbHandler.load, then the caller's `entry.value`.
ElbHandler_load(p) ==
    /\ pc[p] = "ElbHandler.load"
    /\ LET data == DescribeLoadBalancers(handler[p].lbArn) IN
        handler' = [handler EXCEPT ![p].lb = data.LoadBalancers[1]]
    /\ calls' = [calls EXCEPT ![p] =
            Append(@, Call("elbv2.describeLoadBalancers",
                           [LoadBalancerArns |-> <<handler[p].lbArn>>]))]
    /\ alias' = [alias EXCEPT ![p] = entry[p].value]
    /\ pc' = [pc EXCEPT ![p] = "zone.load"]
    /\ UNCHANGED <<store, dns, event, entry, key, item, upsert, zone, changeBatch,
                   outcome, others>>

\* `item = await table.getItem(id)` and the statements up to the next await.
table_getItem(p) ==
    /\ pc[p] = "table.getItem"
    /\ LET it == RecordTable_getItem(store, key[p].s) IN
        /\ item' = [item EXCEPT ![p] = it]
        /\ IF Falsy(it)
           THEN /\ Finish(p, IF ItemGuarded(event[p].detail) THEN "ok" ELSE "error")
                /\ UNCHANGED alias
           ELSE /\ alias' = [alias EXCEPT ![p] = it.alias]
                /\ pc' = [pc EXCEPT ![p] = "zone.load"]
                /\ UNCHANGED outcome
    /\ calls' = [calls EXCEPT ![p] =
            Append(@, Call("dynamodb.get", [Key |-> [id |-> key[p].s]]))]
    /\ UNCHANGED <<store, dns, event, entry, key, handler, upsert, zone, changeBatch,
                   others>>

\* Mutant: `id` of a zone that was not found is an empty id, not a TypeError.
HostedZone_load_emptyId(dnsName) ==
    LET data == ListHostedZonesByName(dnsName)
    IN  IF data.HostedZones = <<>> THEN [Id |-> "", Name |-> <<>>] ELSE data.HostedZones[1]

\* HostedZone.load: the first zone of the listing (undefined when it is empty).
HostedZone_load(dnsName) ==
    LET data == ListHostedZonesByName(dnsName)
    IN  IF data.HostedZones = <<>> THEN Undefined ELSE data.HostedZones[1]

\* The handler of a delete that works from the stored item.
StoredHandler(ev, it) ==
    IF ev.source = "aws.ec2"
    THEN [Ec2Handler(it.object.InstanceId) EXCEPT !.instance = it.object]
    ELSE [ElbHandler(EventResource(ev)) EXCEPT !.lb = it.object]

\* `zone = new HostedZone(getDomain(alias)); await zone.load()`, then the
\* statements up to updateRecords' first await; `zone.id` of an undefined
\* zone is a TypeError.
zone_load(p) ==
    /\ pc[p] = "zone.load"
    /\ LET dnsName == getDomain(alias[p])
           z == HostedZone_load(dnsName)
       IN
        /\ zone' = [zone EXCEPT ![p] = z]
        /\ calls' = [calls EXCEPT ![p] =
                Append(@, Call("route53.listHostedZonesByName", [DNSName |-> dnsName]))]
        /\ handler' = [handler EXCEPT ![p] =
                IF Falsy(item[p]) THEN @ ELSE StoredHandler(event[p], item[p])]
        /\ IF Falsy(z)
           THEN Finish(p, "error")
           ELSE /\ pc' = [pc EXCEPT ![p] =
                        IF event[p].source = "aws.ec2" THEN "Ec2Handler.updateRecords"
                        ELSE "ElbHandler.updateRecords"]
                /\ UNCHANGED outcome
    /\ UNCHANGED <<store, dns, event, entry, key, item, alias, upsert, changeBatch,
                   others>>

\* Mutant: the change batch is built and the table is not written.
Ec2Handler_updateRecords_noWrite(p) ==
    /\ pc[p] = "Ec2Handler.updateRecords"
    /\ changeBatch' = [changeBatch EXCEPT ![p] =
            Ec2ChangeBatch(handler[p].instance, alias[p], upsert[p])]
    /\ pc' = [pc EXCEPT ![p] = "Ec2Handler.change"]
    /\ UNCHANGED <<store, dns, event, entry, key, item, handler, alias, upsert, zone,
                   outcome, calls, others>>

\* Ec2Handler.updateRecords up to its first await: table.update / table.remove.
Ec2Handler_updateRecords(p) ==
    /\ pc[p] = "Ec2Handler.updateRecords"
    /\ LET instance == handler[p].instance IN
        /\ changeBatch' = [changeBatch EXCEPT ![p] =
                Ec2ChangeBatch(instance, alias[p], upsert[p])]
        /\ IF upsert[p]
           THEN /\ store' = RecordTable_update(store, instance.InstanceId, alias[p], instance)
                /\ calls' = [calls EXCEPT ![p] =
                        Append(@, Call("dynamodb.put", [id |-> instance.InstanceId]))]
           ELSE /\ store' = RecordTable_remove(store, instance.InstanceId)
                /\ calls' = [calls EXCEPT ![p] =
                        Append(@, Call("dynamodb.delete", [id |-> instance.InstanceId]))]
    /\ pc' = [pc EXCEPT ![p] = "Ec2Handler.change"]
    /\ UNCHANGED <<dns, event, entry, key, item, handler, alias, upsert, zone,
                   outcome, others>>

\* ElbHandler.updateRecords up to its first await.
ElbHandler_updateRecords(p) ==
    /\ pc[p] = "ElbHandler.updateRecords"
    /\ LET lb == handler[p].lb IN
        /\ changeBatch' = [changeBatch EXCEPT ![p] =
                ElbChangeBatch(lb, alias[p], upsert[p])]
        /\ IF upsert[p]
           THEN /\ store' = RecordTable_update(store, lb.LoadBalancerArn, alias[p], lb)
                /\ calls' = [calls EXCEPT ![p] =
                        Append(@, Call("dynamodb.put", [id |-> lb.LoadBalancerArn]))]
           ELSE /\ store' = RecordTable_remove(store, lb.LoadBalancerArn)
                /\ calls' = [calls EXCEPT ![p] =
                        Append(@, Call("dynamodb.delete", [id |-> lb.LoadBalancerArn]))]
    /\ pc' = [pc EXCEPT ![p] = "ElbHandler.change"]
    /\ UNCHANGED <<dns, event, entry, key, item, handler, alias, upsert, zone,
                   outcome, others>>

\* Mutant: a rejected change request is compensated by restoring the table.
SubmitChange_rollback(p) ==
    LET r == ChangeResourceRecordSets(dns, zone[p].Id, changeBatch[p][1]) IN
    /\ dns' = r.records
    /\ store' = IF r.ok THEN store ELSE pre.store
    /\ calls' = [calls EXCEPT ![p] =
            Append(@, Call("route53.changeResourceRecordSets",
                           [HostedZoneId |-> zone[p].Id,
                            ChangeBatch |-> [Changes |-> changeBatch[p]]]))]
    /\ Finish(p, IF r.ok THEN "ok" ELSE "error")
    /\ UNCHANGED <<event, locals, others>>

\* The rest of updateRecords: route53.changeResourceRecordSets.
SubmitChange(p) ==
    LET r == ChangeResourceRecordSets(dns, zone[p].Id, changeBatch[p][1]) IN
    /\ dns' = r.records
    /\ calls' = [calls EXCEPT ![p] =
            Append(@, Call("route53.changeResourceRecordSets",
                           [HostedZoneId |-> zone[p].Id,
                            ChangeBatch |-> [Changes |-> changeBatch[p]]]))]
    /\ Finish(p, IF r.ok THEN "ok" ELSE "error")
    /\ UNCHANGED <<store, event, locals, others>>

Ec2Handler_change(p) ==
    /\ pc[p] = "Ec2Handler.change"
    /\ SubmitChange(p)

ElbHandler_change(p) ==
    /\ pc[p] = "ElbHandler.change"
    /\ SubmitChange(p)

Step(p) ==
    \/ \E ev \in Events : exports_handler(p, ev)
    \/ redeliver(p)
    \/ invocation_end(p)
    \/ Ec2Handler_load(p)
    \/ ElbHandler_load(p)
    \/ table_getItem(p)
    \/ zone_load(p)
    \/ Ec2Handler_updateRecords(p)
    \/ ElbHandler_updateRecords(p)
    \/ Ec2Handler_change(p)
    \/ ElbHandler_change(p)

Next == \E p \in Procs : Step(p)

\* Events are handled one at a time and no external call fails in transit.
Spec == Init /\ [][Next]_vars

\* Error-free runs: no invocation ends in error.
NextClean == \E p \in Procs : Step(p) /\ outcome'[p] # "error"

SpecClean == Init /\ [][NextClean]_vars

\* ------------------------------------------------------------ failing calls

\* The external call an invocation is waiting for.
PendingCall(p) ==
    CASE pc[p] = "Ec2Handler.load" ->
            Call("ec2.describeInstances", [InstanceIds |-> <<handler[p].instanceId>>])
      [] pc[p] = "ElbHandler.load" ->
            Call("elbv2.describeLoadBalancers", [LoadBalancerArns |-> <<handler[p].lbArn>>])
      [] pc[p] = "table.getItem" ->
            Call("dynamodb.get", [Key |-> [id |-> key[p].s]])
      [] pc[p] = "zone.load" ->
            Call("route53.listHostedZonesByName", [DNSName |-> getDomain(alias[p])])
      [] pc[p] = "Ec2Handler.updateRecords" ->
            Call(IF upsert[p] THEN "dynamodb.put" ELSE "dynamodb.delete",
                 [id |-> handler[p].instance.InstanceId])
      [] pc[p] = "ElbHandler.updateRecords" ->
            Call(IF upsert[p] THEN "dynamodb.put" ELSE "dynamodb.delete",
                 [id |-> handler[p].lb.LoadBalancerArn])
      [] pc[p] \in {"Ec2Handler.change", "ElbHandler.change"} ->
            Call("route53.changeResourceRecordSets",
                 [HostedZoneId |-> zone[p].Id,
                  ChangeBatch |-> [Changes |-> changeBatch[p]]])

\* A call that was rejected: `.promise()` rejects and the service is left as
\* it was.
Rejected(c) == [api |-> c.api, arg |-> c.arg, failed |-> TRUE]
Failed(c) == "failed" \in DOMAIN c

\* Mutant: the rejection is caught and the handler returns normally.
call_fails_caught(p) ==
    /\ pc[p] \notin {"idle", "done"}
    /\ calls' = [calls EXCEPT ![p] = Append(@, Rejected(PendingCall(p)))]
    /\ Finish(p, "ok")
    /\ UNCHANGED <<store, dns, event, locals, others>>

\* The awaited call fails (the service is unavailable, throttles or denies
\* the request, or the resource is not there): the rejection is not caught
\* anywhere, so exports.handler rejects.
call_fails(p) ==
    /\ pc[p] \notin {"idle", "done"}
    /\ calls' = [calls EXCEPT ![p] = Append(@, Rejected(PendingCall(p)))]
    /\ Finish(p, "error")
    /\ UNCHANGED <<store, dns, event, locals, others>>

NextFaulty == \E p \in Procs : Step(p) \/ call_fails(p)

\* Events are handled one at a time and any external call may fail.
SpecFaulty == Init /\ [][NextFaulty]_vars

\* ------------------------------------------------------------ vocabulary of the claims

Name(p) == event[p].detail.eventName
Resource(p) == EventResource(event[p])
Done(p) == pc[p] = "done"
Active(p) == pc[p] # "idle"

\* The tags an upsert-type or compute tag-removed event carries.
EventTags(e) ==
    LET n == e.detail.eventName
        q == e.detail.requestParameters
        a == CASE n = "RunInstances" ->
                    IF q.tagSpecificationSet = Undefined THEN Undefined
                    ELSE q.tagSpecificationSet.items[1].tags
               [] n \in {"CreateTags", "DeleteTags"} -> q.tagSet.items
               [] n \in {"CreateLoadBalancer", "AddTags"} -> q.tags
               [] OTHER -> Undefined
    IN  IF a = Undefined THEN <<>> ELSE a.a

\* The values the designated tag has in the event (none, or one).
DesignatedValues(e) ==
    {EventTags(e)[i].value : i \in {j \in 1..Len(EventTags(e)) : EventTags(e)[j].key = TAG_KEY}}

\* The removed-key list of a balancer tag-removed event names the designated key.
RemovesDesignatedKey(e) ==
    /\ e.detail.eventName = "RemoveTags"
    /\ \E i \in 1..Len(e.detail.requestParameters.tagKeys.a) :
            e.detail.requestParameters.tagKeys.a[i] = TAG_KEY

Changes(p) == ChangeCalls(calls[p])
TheChange(c) == c.arg.ChangeBatch.Changes[1]
Untouched == store = pre.store /\ dns = pre.dns

\* ------------------------------------------------------------ concurrent invocations

\* Lambda runs one execution environment per event in flight: two
\* invocations share the table and the hosted zones and nothing else.
Workers == {1, 2}

\* The events of the concurrent runs: requests carrying the designated tag
\* alone, with a name of the first zone, the deletes, and an API call outside
\* the table (the invocation next to it then runs alone).
ConcurrentAliases == {AX, BX}
ConcurrentEvents ==
    {e \in Events :
        IF ~Recognized(e) THEN e.source = "aws.ec2" /\ e.detail.eventName = "StopInstances"
        ELSE CASE e.detail.eventName \in {"TerminateInstances", "DeleteLoadBalancer"} -> TRUE
               [] e.detail.eventName = "RemoveTags" ->
                    e.detail.requestParameters.tagKeys.a = <<TAG_KEY>>
               [] OTHER ->
                    /\ Len(EventTags(e)) = 1
                    /\ DesignatedValues(e) # {}
                    /\ DesignatedValues(e) \subseteq ConcurrentAliases}

InitConcurrent ==
    /\ store = [id \in ResourceIds |-> Undefined]
    /\ dns = [n \in AliasValues |-> NoRecord]
    /\ pc = [p \in Workers |-> "idle"]
    /\ event = [p \in Workers |-> NoEvent]
    /\ entry = [p \in Workers |-> Undefined]
    /\ key = [p \in Workers |-> Undefined]
    /\ item = [p \in Workers |-> Undefined]
    /\ handler = [p \in Workers |-> Undefined]
    /\ alias = [p \in Workers |-> Undefined]
    /\ upsert = [p \in Workers |-> FALSE]
    /\ zone = [p \in Workers |-> Undefined]
    /\ changeBatch = [p \in Workers |-> Undefined]
    /\ outcome = [p \in Workers |-> "none"]
    /\ calls = [p \in Workers |-> <<>>]
    /\ pre = [store |-> [id \in ResourceIds |-> Undefined],
              dns |-> [n \in AliasValues |-> NoRecord]]
    /\ prev = [kind |-> "other", id |-> "none", fresh |-> FALSE]
    /\ dup = "no"
    /\ life \in [ResourceIds -> {"new", "live"}]

\* Two events are delivered, e1's API call having happened before e2's; each
\* invocation runs exports.handler up to its first await, which touches
\* neither the table nor Route 53, so starting both at once loses no
\* interleaving of their calls.
start_pair(e1, e2) ==
    /\ \A p \in Workers : pc[p] = "idle"
    /\ Happens(e1, life)
    /\ Happens(e2, After(e1, life))
    /\ life' = After(e2, After(e1, life))
    /\ LET ev == [p \in Workers |-> IF p = 1 THEN e1 ELSE e2]
           c == [p \in Workers |-> Dispatch(ev[p])]
       IN
        /\ event' = ev
        /\ pc' = [p \in Workers |-> c[p].next]
        /\ outcome' = [p \in Workers |-> IF c[p].next = "done" THEN "ok" ELSE "running"]
        /\ entry' = [p \in Workers |-> c[p].entry]
        /\ key' = [p \in Workers |-> c[p].key]
        /\ handler' = [p \in Workers |-> c[p].handler]
        /\ upsert' = [p \in Workers |-> c[p].upsert]
    /\ item' = [p \in Workers |-> Undefined]
    /\ alias' = [p \in Workers |-> Undefined]
    /\ zone' = [p \in Workers |-> Undefined]
    /\ changeBatch' = [p \in Workers |-> Undefined]
    /\ calls' = [p \in Workers |-> <<>>]
    /\ pre' = [store |-> store, dns |-> dns]
    /\ UNCHANGED <<store, dns, prev, dup>>

\* Both invocations are over.
end_pair ==
    /\ \A p \in Workers : pc[p] = "done"
    /\ pc' = [p \in Workers |-> "idle"]
    /\ event' = [p \in Workers |-> NoEvent]
    /\ entry' = [p \in Workers |-> Undefined]
    /\ key' = [p \in Workers |-> Undefined]
    /\ item' = [p \in Workers |-> Undefined]
    /\ handler' = [p \in Workers |-> Undefined]
    /\ alias' = [p \in Workers |-> Undefined]
    /\ upsert' = [p \in Workers |-> FALSE]
    /\ zone' = [p \in Workers |-> Undefined]
    /\ changeBatch' = [p \in Workers |-> Undefined]
    /\ outcome' = [p \in Workers |-> "none"]
    /\ calls' = [p \in Workers |-> <<>>]
    /\ pre' = [store |-> store, dns |-> dns]
    /\ UNCHANGED <<store, dns, prev, dup, life>>

\* One awaited call of one invocation completes.
StepConcurrent(p) ==
    \/ Ec2Handler_load(p)
    \/ ElbHandler_load(p)
    \/ table_getItem(p)
    \/ zone_load(p)
    \/ Ec2Handler_updateRecords(p)
    \/ ElbHandler_updateRecords(p)
    \/ Ec2Handler_change(p)
    \/ ElbHandler_change(p)

NextConcurrent ==
    \/ \E e1, e2 \in ConcurrentEvents : start_pair(e1, e2)
    \/ end_pair
    \/ \E p \in Workers : StepConcurrent(p)

\* Two invocations at a time, their calls interleaved in any order; no
\* external call fails in transit.
SpecConcurrent == InitConcurrent /\ [][NextConcurrent]_vars

\* ------------------------------------------------------------ C1

\* C1: an event whose (source, eventName) pair is not one of the eight
\* recognized pairs makes no external call, completes without error and leaves
\* the store and the DNS records as they were.
C1_UnrecognizedIsNoop ==
    \A p \in Procs :
        Active(p) /\ ~Recognized(event[p]) =>
            /\ Done(p)
            /\ outcome[p] = "ok"
            /\ calls[p] = <<>>
            /\ Untouched

\* A known API call under the wrong source has been handled, after another
\* invocation had put a row into the store.
C1_Witness ==
    \E p \in Procs :
        /\ Done(p)
        /\ event[p].source = "aws.ec2"
        /\ Name(p) = "DeleteLoadBalancer"
        /\ store["lb-app"] # Undefined

\* ------------------------------------------------------------ C2

\* The event lacks what it needs to act: the designated tag (upsert-type and
\* tag-removal events) or a prior association row (instance-terminated,
\* balancer-deleted, balancer tag-removed).
LacksInput(e, table) ==
    \/ /\ e.detail.eventName \in UpsertEventNames \cup {"DeleteTags"}
       /\ DesignatedValues(e) = {}
    \/ /\ e.detail.eventName = "RemoveTags"
       /\ ~RemovesDesignatedKey(e)
    \/ /\ e.detail.eventName \in {"TerminateInstances", "DeleteLoadBalancer", "RemoveTags"}
       /\ table[EventResource(e)] = Undefined

\* C2: a recognized event that lacks the designated tag or the prior
\* association row is a silent no-op: no error, no store mutation, no
\* record-set change request.
C2_MissingInputIsSilentNoop ==
    \A p \in Procs :
        Done(p) /\ Recognized(event[p]) /\ LacksInput(event[p], pre.store) =>
            /\ outcome[p] = "ok"
            /\ StoreCalls(calls[p]) = <<>>
            /\ Changes(p) = <<>>
            /\ Untouched

\* ------------------------------------------------------------ C3

\* C3: an instance-launched event carrying the designated tag with value v
\* whose calls all succeed ends with the association (instance id, v) in the
\* store and with exactly one change request, an UPSERT of Name v.
C3_LaunchUpserts ==
    \A p \in Procs :
        Done(p) /\ Recognized(event[p]) /\ Name(p) = "RunInstances"
                /\ outcome[p] = "ok" =>
            \A v \in DesignatedValues(event[p]) :
                /\ store[Resource(p)] # Undefined
                /\ store[Resource(p)].id = Resource(p)
                /\ store[Resource(p)].alias = v
                /\ Len(Changes(p)) = 1
                /\ TheChange(Changes(p)[1]).Action = "UPSERT"
                /\ TheChange(Changes(p)[1]).ResourceRecordSet.Name = v

C3_Witness ==
    \E p \in Procs :
        /\ Done(p) /\ Recognized(event[p]) /\ Name(p) = "RunInstances"
        /\ outcome[p] = "ok"
        /\ DesignatedValues(event[p]) = {BX}
        /\ Len(EventTags(event[p])) = 2
        /\ EventTags(event[p])[1].key = TAG_KEY
        /\ pre.store[Resource(p)] = Undefined
        /\ dns[BX] # NoRecord

\* ------------------------------------------------------------ C4

\* C4: an instance-terminated event for a resource id that has an association
\* with alias v issues a DELETE change request of Name v, and afterwards the
\* store has no row for that id.
C4_TerminateDeletes ==
    \A p \in Procs :
        Done(p) /\ Recognized(event[p]) /\ Name(p) = "TerminateInstances"
                /\ pre.store[Resource(p)] # Undefined =>
            /\ \E i \in 1..Len(Changes(p)) :
                    /\ TheChange(Changes(p)[i]).Action = "DELETE"
                    /\ TheChange(Changes(p)[i]).ResourceRecordSet.Name
                            = pre.store[Resource(p)].alias
            /\ store[Resource(p)] = Undefined

C4_Witness ==
    \E p \in Procs :
        /\ Done(p) /\ Recognized(event[p]) /\ Name(p) = "TerminateInstances"
        /\ pre.store[Resource(p)] # Undefined
        /\ pre.store[Resource(p)].alias = AX
        /\ pre.dns[AX] # NoRecord
        /\ dns[AX] = NoRecord

\* ------------------------------------------------------------ C5

\* C5: an instance-terminated event for a resource id that has no association
\* row never issues a change request and leaves the store unchanged (it
\* returns, without error, after the lookup).
C5_TerminateUnknownIsNoop ==
    \A p \in Procs :
        Active(p) /\ Recognized(event[p]) /\ Name(p) = "TerminateInstances"
                  /\ pre.store[Resource(p)] = Undefined =>
            /\ Changes(p) = <<>>
            /\ StoreCalls(calls[p]) = <<>>
            /\ Untouched
            /\ outcome[p] # "error"

C5_Witness ==
    \E p \in Procs :
        /\ Done(p) /\ Recognized(event[p]) /\ Name(p) = "TerminateInstances"
        /\ pre.store[Resource(p)] = Undefined
        /\ pre.store["lb-app"] # Undefined
        /\ Len(calls[p]) = 1

\* ------------------------------------------------------------ C6

\* C6: a balancer tag-removed event whose removed-key list names the designated
\* key, for a balancer that has an association, issues one DELETE change
\* request whose Name is the stored alias and whose alias target is built from
\* the stored snapshot, and describes no balancer.
C6_TagRemovedUsesStoredRow ==
    \A p \in Procs :
        Done(p) /\ Recognized(event[p]) /\ RemovesDesignatedKey(event[p])
                /\ pre.store[Resource(p)] # Undefined =>
            LET row == pre.store[Resource(p)] IN
            /\ Len(Changes(p)) = 1
            /\ TheChange(Changes(p)[1]).Action = "DELETE"
            /\ TheChange(Changes(p)[1]).ResourceRecordSet.Name = row.alias
            /\ TheChange(Changes(p)[1]).ResourceRecordSet.AliasTarget.HostedZoneId
                    = row.object.CanonicalHostedZoneId
            /\ TheChange(Changes(p)[1]).ResourceRecordSet.AliasTarget.DNSName
                    \in {row.object.DNSName \o ".",
                         "dualstack." \o row.object.DNSName \o "."}
            /\ \A i \in 1..Len(calls[p]) : calls[p][i].api # "elbv2.describeLoadBalancers"

C6_Witness ==
    \E p \in Procs :
        /\ Done(p) /\ Recognized(event[p]) /\ RemovesDesignatedKey(event[p])
        /\ pre.store[Resource(p)] # Undefined
        /\ pre.store[Resource(p)].alias = BX
        /\ pre.dns[BX] # NoRecord
        /\ dns[BX] = NoRecord
        /\ outcome[p] = "ok"

\* ------------------------------------------------------------ C7

\* The invocation is a delete-type event that succeeded (its change request
\* was accepted) right after a successful upsert-type event for the same
\* resource, which had found the store without a row for it.
RoundTrip(p) ==
    /\ Done(p)
    /\ outcome[p] = "ok"
    /\ EventKind(event[p]) = "delete"
    /\ Changes(p) # <<>>
    /\ prev.kind = "upsert"
    /\ prev.id = Resource(p)
    /\ prev.fresh

\* C7: from a store without a row for r, a successful upsert-type event for r
\* followed by a successful delete-type event for r leaves the store without a
\* row for r.
C7_RoundTrip ==
    \A p \in Procs : RoundTrip(p) => store[Resource(p)] = Undefined

C7_Witness ==
    \E p \in Procs :
        /\ RoundTrip(p)
        /\ Name(p) = "DeleteTags"
        /\ pre.store[Resource(p)] # Undefined

\* ------------------------------------------------------------ C8

\* The record set is the one this system writes for the resource: an address
\* record of the instance's private address, or an alias record of the
\* balancer's endpoint.
IsRecordOf(rr, id) ==
    /\ rr # NoRecord
    /\ IF id \in Instances
       THEN /\ "ResourceRecords" \in DOMAIN rr
            /\ rr.ResourceRecords[1].Value = PrivateIp(id)
       ELSE /\ "AliasTarget" \in DOMAIN rr
            /\ rr.AliasTarget.DNSName
                    \in {DescribeLoadBalancers(id).LoadBalancers[1].DNSName \o ".",
                         "dualstack." \o DescribeLoadBalancers(id).LoadBalancers[1].DNSName \o "."}

\* C8: with events handled one at a time and no call failing, between
\* invocations an association row (id, alias) exists exactly when the record
\* named alias that was created for id is present.
C8_StoreMatchesDns ==
    (\A p \in Procs : pc[p] \in {"idle", "done"}) =>
        \A id \in ResourceIds, a \in AliasValues :
            (store[id] # Undefined /\ store[id].alias = a) <=> IsRecordOf(dns[a], id)

\* ------------------------------------------------------------ C9

\* C9: a recognized event delivered a second time right after it was handled
\* without error completes without error and leaves the store and the DNS
\* records as the first handling left them.
C9_DuplicateIsIdempotent ==
    \A p \in Procs :
        Done(p) /\ dup = "afterOk" /\ Recognized(event[p]) =>
            /\ outcome[p] = "ok"
            /\ Untouched

\* ------------------------------------------------------------ C10

\* C10: the action of every change request and the kind of every store write
\* follow from the (source, eventName) pair alone: the four upsert-type events
\* only ever issue UPSERT after a store put, the four delete-type events only
\* ever issue DELETE after a store delete, and no other event issues either.
C10_DispatchTable ==
    \A p \in Procs :
        Active(p) =>
            LET kind == EventKind(event[p]) IN
            /\ \A i \in 1..Len(Changes(p)) :
                    /\ kind # "other"
                    /\ TheChange(Changes(p)[i]).Action
                            = (IF kind = "upsert" THEN "UPSERT" ELSE "DELETE")
            /\ \A i \in 1..Len(StoreCalls(calls[p])) :
                    /\ kind # "other"
                    /\ StoreCalls(calls[p])[i].api
                            = (IF kind = "upsert" THEN "dynamodb.put" ELSE "dynamodb.delete")
                    /\ (store[Resource(p)] # Undefined) <=> (kind = "upsert")
            /\ Changes(p) # <<>> => StoreCalls(calls[p]) # <<>>

C10_Witness ==
    \E p \in Procs :
        /\ Done(p) /\ Recognized(event[p]) /\ Name(p) = "DeleteTags"
        /\ Changes(p) # <<>>
        /\ pre.store[Resource(p)] # Undefined
        /\ outcome[p] = "ok"

\* ------------------------------------------------------------ C11

\* The store write a change request goes with: a put of the resource's row
\* for an UPSERT, a delete of it for a DELETE.
StoreWriteOf(p, c) ==
    [api |-> IF TheChange(c).Action = "UPSERT" THEN "dynamodb.put" ELSE "dynamodb.delete",
     arg |-> [id |-> Resource(p)]]

\* C11: whenever an invocation has submitted a record-set change request
\* (accepted or not), the store write for that resource id - a put for an
\* UPSERT, a delete for a DELETE - was made, and succeeded, earlier in the
\* same invocation; no change request comes before its store write.
C11_StoreBeforeChange ==
    \A p \in Procs :
        \A i \in 1..Len(calls[p]) :
            calls[p][i].api = "route53.changeResourceRecordSets" =>
                \E j \in 1..(i - 1) : calls[p][j] = StoreWriteOf(p, calls[p][i])

C11_Witness ==
    \E p \in Procs :
        /\ Done(p) /\ Recognized(event[p]) /\ Name(p) = "DeleteTags"
        /\ outcome[p] = "ok"
        /\ Len(calls[p]) = 4
        /\ calls[p][3].api = "dynamodb.delete"
        /\ calls[p][4].api = "route53.changeResourceRecordSets"
        /\ pre.store[Resource(p)] # Undefined
        /\ store[Resource(p)] = Undefined

\* ------------------------------------------------------------ C12

LastCall(p) == calls[p][Len(calls[p])]

\* The invocation ended in error at its change request, after its store write.
ChangeFailed(p) ==
    /\ Done(p)
    /\ outcome[p] = "error"
    /\ calls[p] # <<>>
    /\ LastCall(p).api = "route53.changeResourceRecordSets"

\* The store write of the invocation stands and the records are as they were.
NotRolledBack(p) ==
    /\ dns = pre.dns
    /\ IF EventKind(event[p]) = "upsert"
       THEN /\ store[Resource(p)] # Undefined
            /\ store[Resource(p)].alias = TheChange(LastCall(p)).ResourceRecordSet.Name
       ELSE store[Resource(p)] = Undefined

\* The invocation handles a delete-type event for the resource whose delete
\* has just failed at the change request.
AfterFailedDelete(p) ==
    /\ Active(p)
    /\ EventKind(event[p]) = "delete"
    /\ prev.kind = "failedDelete"
    /\ prev.id = Resource(p)

\* The delete-type events that work from the association row.
LookupEventNames == {"TerminateInstances", "DeleteLoadBalancer", "RemoveTags"}

\* C12 as stated: an invocation whose change request fails after its store
\* write ends in error with the store write standing (row present after a
\* failed upsert, absent after a failed delete) and the records unchanged;
\* any later delete-type event for that id finds no association and leaves
\* the records as they are.
C12_LaterDeleteNeverRemoves ==
    \A p \in Procs :
        /\ ChangeFailed(p) => NotRolledBack(p)
        /\ AfterFailedDelete(p) =>
                /\ pre.store[Resource(p)] = Undefined
                /\ dns = pre.dns

\* C12, amended: as above, the later delete-type event being one that works
\* from the association row (instance-terminated, balancer-deleted, balancer
\* tag-removed): it finds no row, submits no change request and leaves store
\* and records as they are.
C12_PartialFailure ==
    \A p \in Procs :
        /\ ChangeFailed(p) => NotRolledBack(p)
        /\ AfterFailedDelete(p) /\ Name(p) \in LookupEventNames =>
                /\ pre.store[Resource(p)] = Undefined
                /\ Changes(p) = <<>>
                /\ Untouched

C12_Witness ==
    \E p \in Procs :
        /\ Done(p) /\ AfterFailedDelete(p) /\ Name(p) = "TerminateInstances"
        /\ outcome[p] = "ok"
        /\ store[Resource(p)] = Undefined
        /\ IsRecordOf(dns[AX], Resource(p))

\* ------------------------------------------------------------ C13

\* C13: a failed external call (describe, zone listing, store get / put /
\* delete, record-set change) is the last call of its invocation, which ends
\* in error; after a failed store put / delete no change request is
\* submitted, and a change request that Route 53 rejects ends the invocation
\* in error as well.
C13_FailurePropagates ==
    \A p \in Procs :
        /\ \A i \in 1..Len(calls[p]) :
                Failed(calls[p][i]) =>
                    /\ i = Len(calls[p])
                    /\ Done(p)
                    /\ outcome[p] = "error"
                    /\ calls[p][i].api \in {"dynamodb.put", "dynamodb.delete"} =>
                            Changes(p) = <<>>
        /\ Done(p) /\ Changes(p) # <<>> /\ dns = pre.dns
                    /\ TheChange(Changes(p)[1]).Action = "UPSERT"
                    /\ pre.dns[TheChange(Changes(p)[1]).ResourceRecordSet.Name]
                            # TheChange(Changes(p)[1]).ResourceRecordSet =>
                outcome[p] = "error"

C13_Witness ==
    \E p \in Procs :
        /\ Done(p) /\ Recognized(event[p]) /\ Name(p) = "AddTags"
        /\ outcome[p] = "error"
        /\ Len(calls[p]) = 3
        /\ Failed(calls[p][3])
        /\ calls[p][3].api = "dynamodb.put"
        /\ pre.store[Resource(p)] # Undefined
        /\ Untouched

\* ------------------------------------------------------------ C14

\* exports.handler run from start to end with no other invocation in between:
\* the table and the record sets it leaves, and how it ends.
RunInvocation(table, records, ev) ==
    LET c == Dispatch(ev)
        unchanged(result) == [store |-> table, dns |-> records, outcome |-> result]
    IN
    IF c.next = "done" THEN unchanged("ok")
    ELSE
    LET stored == c.next = "table.getItem"
        it == IF stored THEN RecordTable_getItem(table, c.key.s) ELSE Undefined
    IN
    IF stored /\ Falsy(it)
    THEN unchanged(IF ItemGuarded(ev.detail) THEN "ok" ELSE "error")
    ELSE
    LET isEc2 == ev.source = "aws.ec2"
        al == IF stored THEN it.alias ELSE c.entry.value
        z == HostedZone_load(getDomain(al))
        object ==
            IF stored THEN it.object
            ELSE IF isEc2
            THEN DescribeInstances(c.handler.instanceId).Reservations[1].Instances[1]
            ELSE DescribeLoadBalancers(c.handler.lbArn).LoadBalancers[1]
    IN
    IF Falsy(z) THEN unchanged("error")
    ELSE
    LET id == IF isEc2 THEN object.InstanceId ELSE object.LoadBalancerArn
        batch == IF isEc2 THEN Ec2ChangeBatch(object, al, c.upsert)
                 ELSE ElbChangeBatch(object, al, c.upsert)
        written == IF c.upsert THEN RecordTable_update(table, id, al, object)
                   ELSE RecordTable_remove(table, id)
        r == ChangeResourceRecordSets(records, z.Id, batch[1])
    IN  [store |-> written, dns |-> r.records, outcome |-> IF r.ok THEN "ok" ELSE "error"]

\* The two invocations run one after the other, first the one of worker p.
OneAfterTheOther(p, q) ==
    LET first == RunInvocation(pre.store, pre.dns, event[p])
        second == RunInvocation(first.store, first.dns, event[q])
    IN  [store |-> second.store, dns |-> second.dns]

\* Two invocations for different resources have both ended.
BothDoneDifferentIds ==
    /\ \A p \in Workers : Done(p) /\ Recognized(event[p])
    /\ Resource(1) # Resource(2)

\* C14: when two invocations for two different resource ids have run with
\* their calls interleaved in any order, the table and the record sets are
\* what running the two one after the other, in one of the two orders, leaves
\* (also when both resources are given the same alias).
C14_DifferentIdsIndependent ==
    BothDoneDifferentIds =>
        [store |-> store, dns |-> dns] \in {OneAfterTheOther(1, 2), OneAfterTheOther(2, 1)}

\* Both resources are given the alias a.x, the second invocation's change
\* request overtakes the first's, and the two orders differ in what they leave.
C14_Witness ==
    /\ BothDoneDifferentIds
    /\ Name(1) = "CreateTags" /\ Name(2) = "AddTags"
    /\ DesignatedValues(event[1]) = {AX} /\ DesignatedValues(event[2]) = {AX}
    /\ \A p \in Workers : outcome[p] = "ok"
    /\ OneAfterTheOther(1, 2) # OneAfterTheOther(2, 1)
    /\ [store |-> store, dns |-> dns] = OneAfterTheOther(2, 1)
    /\ store["i-1"] # Undefined /\ store["lb-app"] # Undefined

\* ------------------------------------------------------------ C15

\* In this step invocation p's table write completes / p's change request is
\* accepted.
StoreWriteStep(p) ==
    /\ pc[p] \in {"Ec2Handler.updateRecords", "ElbHandler.updateRecords"}
    /\ pc'[p] \in {"Ec2Handler.change", "ElbHandler.change"}

ChangeStep(p) ==
    /\ pc[p] \in {"Ec2Handler.change", "ElbHandler.change"}
    /\ pc'[p] = "done"
    /\ outcome'[p] = "ok"

\* The row / the record set that p's write / p's change request leaves.
RowOf(p) ==
    IF ~upsert[p] THEN Undefined
    ELSE [id |-> Resource(p),
          alias |-> alias[p],
          object |-> IF event[p].source = "aws.ec2" THEN handler[p].instance
                     ELSE handler[p].lb]

RecordOf(p) ==
    IF upsert[p] THEN changeBatch[p][1].ResourceRecordSet ELSE NoRecord

\* C15: invocations for the same resource id are not serialised.  Every
\* table write makes the row of its id what that invocation writes, whatever
\* another invocation wrote or is about to write, and leaves the records
\* alone; every accepted change request makes the record set of its name what
\* that invocation submits and leaves the table alone; nothing else changes
\* either.  So the final row is the last table write's and the final record
\* the last change request's, each on its own.
C15_LastWriterWins ==
    [][ /\ \A p \in Workers :
            /\ StoreWriteStep(p) =>
                    /\ store' = [store EXCEPT ![Resource(p)] = RowOf(p)]
                    /\ dns' = dns
            /\ ChangeStep(p) =>
                    /\ dns' = [dns EXCEPT ![alias[p]] = RecordOf(p)]
                    /\ store' = store
        /\ store' # store => \E p \in Workers : StoreWriteStep(p)
        /\ dns' # dns => \E p \in Workers : ChangeStep(p)
      ]_vars

\* An upsert-type and a delete-type invocation for the same id have both
\* ended without a failed call.
RaceOver ==
    /\ \A p \in Workers : Done(p) /\ Recognized(event[p]) /\ outcome[p] = "ok"
    /\ Resource(1) = Resource(2)
    /\ {EventKind(event[1]), EventKind(event[2])} = {"upsert", "delete"}
    /\ \A p \in Workers : Len(Changes(p)) = 1

\* The row is present and the record is absent: the delete's table write
\* came first and its change request last.
C15_Witness ==
    /\ RaceOver
    /\ store[Resource(1)] # Undefined
    /\ dns[store[Resource(1)].alias] = NoRecord
    /\ \A a \in AliasValues : ~IsRecordOf(dns[a], Resource(1))

\* ------------------------------------------------------------ C16

\* The value of the designated tag in the event.
DesignatedValue(e) == CHOOSE v \in DesignatedValues(e) : TRUE

\* C16: a compute tag-removed event whose tag set has the designated tag,
\* with value v, first describes the instance, then lists the zones by v
\* without its first label, and reads no row; once the zone is there it
\* deletes the row of the instance and then submits one DELETE of the address
\* record named v (whatever alias the row had) with the instance's current
\* private address.
C16_ComputeTagRemoved ==
    \A p \in Procs :
        Done(p) /\ Recognized(event[p]) /\ Name(p) = "DeleteTags"
                /\ DesignatedValues(event[p]) # {} =>
            LET v == DesignatedValue(event[p]) IN
            /\ Len(calls[p]) \in {2, 4}
            /\ calls[p][1] = Call("ec2.describeInstances", [InstanceIds |-> <<Resource(p)>>])
            /\ calls[p][2] = Call("route53.listHostedZonesByName",
                                  [DNSName |-> SubSeq(v, IndexOf(v, ".") + 2, Len(v))])
            /\ Len(calls[p]) = 2 => zone[p] = Undefined /\ outcome[p] = "error" /\ Untouched
            /\ Len(calls[p]) = 4 =>
                    /\ calls[p][3] = Call("dynamodb.delete", [id |-> Resource(p)])
                    /\ store[Resource(p)] = Undefined
                    /\ calls[p][4].api = "route53.changeResourceRecordSets"
                    /\ calls[p][4].arg.HostedZoneId = zone[p].Id
                    /\ TheChange(calls[p][4]) =
                            [Action |-> "DELETE",
                             ResourceRecordSet |->
                                [Type |-> "A", TTL |-> 300, Name |-> v,
                                 ResourceRecords |-> << [Value |-> PrivateIp(Resource(p))] >>]]

\* The row had another alias than the event's tag value: the DELETE names the
\* event's value and is rejected, the row is gone and the record of the
\* stored alias stays.
C16_Witness ==
    \E p \in Procs :
        /\ Done(p) /\ Recognized(event[p]) /\ Name(p) = "DeleteTags"
        /\ DesignatedValues(event[p]) = {BX}
        /\ pre.store[Resource(p)] # Undefined
        /\ pre.store[Resource(p)].alias = AX
        /\ Len(calls[p]) = 4
        /\ TheChange(calls[p][4]).ResourceRecordSet.Name = BX
        /\ store[Resource(p)] = Undefined
        /\ IsRecordOf(dns[AX], Resource(p))

\* ------------------------------------------------------------ C17

\* The invocation handles a delete-type event that works from the row, and
\* there is a row.
DeletesFromRow(p) ==
    /\ Active(p) /\ Recognized(event[p])
    /\ Name(p) \in LookupEventNames
    /\ Name(p) = "RemoveTags" => RemovesDesignatedKey(event[p])
    /\ pre.store[Resource(p)] # Undefined

\* No inventory call; every change request is a DELETE in the zone listed for
\* the row's alias, of the record named by the row's alias with the value of
\* the row's snapshot.
WorksFromRow(p) ==
    LET row == pre.store[Resource(p)] IN
    /\ \A i \in 1..Len(calls[p]) :
            calls[p][i].api \notin {"ec2.describeInstances", "elbv2.describeLoadBalancers"}
    /\ \A i \in 1..Len(calls[p]) :
            calls[p][i].api = "route53.listHostedZonesByName" =>
                calls[p][i].arg.DNSName = SubSeq(row.alias, IndexOf(row.alias, ".") + 2, Len(row.alias))
    /\ \A i \in 1..Len(Changes(p)) :
            LET c == Changes(p)[i]
                rr == TheChange(c).ResourceRecordSet
            IN  /\ TheChange(c).Action = "DELETE"
                /\ c.arg.HostedZoneId = zone[p].Id
                /\ rr.Name = row.alias
                /\ IF event[p].source = "aws.ec2"
                   THEN rr.ResourceRecords = << [Value |-> row.object.PrivateIpAddress] >>
                   ELSE /\ rr.AliasTarget.HostedZoneId = row.object.CanonicalHostedZoneId
                        /\ rr.AliasTarget.DNSName
                                \in {row.object.DNSName \o ".",
                                     "dualstack." \o row.object.DNSName \o "."}

\* The DELETE request names the record the upsert just before created, with
\* the value it created it with.
DeletesWhatWasCreated(p) ==
    \A i \in 1..Len(Changes(p)) :
        TheChange(Changes(p)[i]).ResourceRecordSet = pre.dns[pre.store[Resource(p)].alias]

\* C17 as stated: instance-terminated, balancer-deleted and balancer
\* tag-removed events call no inventory loader and take zone, Name and value
\* of their DELETE from the row; that row was written by a successful upsert,
\* so when an upsert-type event for the id came just before, it had succeeded
\* and the DELETE names the record it created, with the same value.
C17_RowOfSuccessfulUpsert ==
    \A p \in Procs :
        DeletesFromRow(p) =>
            /\ WorksFromRow(p)
            /\ prev.id = Resource(p) /\ prev.kind \in {"upsert", "failedUpsert"} =>
                    /\ prev.kind = "upsert"
                    /\ DeletesWhatWasCreated(p)

\* C17, amended: the row is the one the last upsert for the id wrote to the
\* store, whether or not its change request succeeded; when it did succeed,
\* the DELETE names the record it created, with the same value.
C17_DeleteFromRow ==
    \A p \in Procs :
        DeletesFromRow(p) =>
            /\ WorksFromRow(p)
            /\ prev.id = Resource(p) /\ prev.kind = "upsert" => DeletesWhatWasCreated(p)

C17_Witness ==
    \E p \in Procs :
        /\ Done(p) /\ DeletesFromRow(p) /\ Name(p) = "DeleteLoadBalancer"
        /\ life[Resource(p)] = "gone"
        /\ prev.kind = "upsert" /\ prev.id = Resource(p)
        /\ Len(Changes(p)) = 1
        /\ pre.store[Resource(p)].alias = BX
        /\ pre.dns[BX] # NoRecord
        /\ dns[BX] = NoRecord
        /\ outcome[p] = "ok"

\* ------------------------------------------------------------ C18

\* A name without its leftmost label: what follows the first dot (nothing,
\* for a name of one label).
WithoutFirstLabel(name) ==
    IF \E i \in 1..Len(name) : name[i] = "."
    THEN LET d == CHOOSE i \in 1..Len(name) :
                    name[i] = "." /\ \A j \in 1..(i - 1) : name[j] # "."
         IN  SubSeq(name, d + 1, Len(name))
    ELSE <<>>

\* The zones the directory returns for a query.
ZonesListed(dnsName) == ListHostedZonesByName(dnsName).HostedZones

\* C18: every change request was preceded, in its invocation, by a zone
\* listing for the record's name without its leftmost label, and carries the
\* id of the first zone of that listing; an invocation whose zone listing
\* returns no zone ends in error without a change request.
C18_ZoneResolution ==
    \A p \in Procs :
        /\ \A i \in 1..Len(calls[p]) :
                calls[p][i].api = "route53.changeResourceRecordSets" =>
                    LET domain == WithoutFirstLabel(TheChange(calls[p][i]).ResourceRecordSet.Name)
                    IN  /\ \E j \in 1..(i - 1) :
                                calls[p][j] = Call("route53.listHostedZonesByName",
                                                   [DNSName |-> domain])
                        /\ ZonesListed(domain) # <<>>
                        /\ calls[p][i].arg.HostedZoneId = ZonesListed(domain)[1].Id
        /\ \A i \in 1..Len(calls[p]) :
                (/\ calls[p][i].api = "route53.listHostedZonesByName"
                 /\ ZonesListed(calls[p][i].arg.DNSName) = <<>>) =>
                    /\ i = Len(calls[p])
                    /\ Done(p)
                    /\ outcome[p] = "error"

\* ------------------------------------------------------------ C19

\* The kinds of call: reading the resource (from the inventory or from the
\* table), and changing the table or the records.
ResolutionApis == {"ec2.describeInstances", "elbv2.describeLoadBalancers", "dynamodb.get"}
MutationApis == {"dynamodb.put", "dynamodb.delete", "route53.changeResourceRecordSets"}

\* The call did not give the invocation what it needs to go on: it failed, or
\* it is a zone listing without a zone.
Unresolved(c) ==
    \/ Failed(c) /\ c.api \in ResolutionApis \cup {"route53.listHostedZonesByName"}
    \/ c.api = "route53.listHostedZonesByName" /\ ZonesListed(c.arg.DNSName) = <<>>

\* C19: every store put / delete and every change request of an invocation
\* comes after a completed resource read (describe, or the row lookup) and
\* after a completed zone listing that returned a zone; so an invocation
\* whose resource read or zone listing fails, or whose listing has no zone,
\* leaves the table and the records exactly as they were before the event.
C19_NoMutationBeforeResolution ==
    \A p \in Procs :
        /\ \A i \in 1..Len(calls[p]) :
                calls[p][i].api \in MutationApis =>
                    /\ \E j \in 1..(i - 1) :
                            calls[p][j].api \in ResolutionApis /\ ~Failed(calls[p][j])
                    /\ \E j \in 1..(i - 1) :
                            /\ calls[p][j].api = "route53.listHostedZonesByName"
                            /\ ~Unresolved(calls[p][j])
        /\ (\E i \in 1..Len(calls[p]) : Unresolved(calls[p][i])) =>
                /\ Untouched
                /\ Done(p)
                /\ outcome[p] = "error"

\* A tag-added event for an instance that has a row and a record, with a
\* value in no zone: the listing is empty and nothing is changed.
C19_Witness ==
    \E p \in Procs :
        /\ Done(p) /\ Recognized(event[p]) /\ Name(p) = "CreateTags"
        /\ DesignatedValues(event[p]) = {CZ}
        /\ Len(calls[p]) = 2
        /\ ~Failed(calls[p][2])
        /\ Unresolved(calls[p][2])
        /\ outcome[p] = "error"
        /\ pre.store[Resource(p)] # Undefined
        /\ IsRecordOf(dns[pre.store[Resource(p)].alias], Resource(p))
        /\ Untouched

====
